---- MODULE Spec2Model ----
(***************************************************************************)
(* Flyra API (Server/api): the flight aggregator (flight_service.py), the  *)
(* FlightRadar24 provider adapter (flightDataApi/flightRadar24API.py), the *)
(* text-generation wrapper (ai_service.py) and the HTTP handlers           *)
(* (index.py), as a state machine.                                         *)
(*                                                                         *)
(* Python strings are TLA+ strings; their characters are read with SubSeq. *)
(* Python values that cross the provider boundary are records              *)
(* [t, n, s]: t the Python type, n the number, s the text.                 *)
(* A call either returns or raises: [ok, val, exc, msg].                   *)
(* The timestamp fields of the response dictionaries (flight_time,         *)
(* flight_date, last_updated) are left out: they read the wall clock only. *)
(***************************************************************************)
EXTENDS Integers, Sequences, FiniteSets, TLC

(***************************************************************************)
(* Bounds of the model.                                                    *)
(***************************************************************************)
MaxRequests == 2

(***************************************************************************)
(* str methods: upper, lower, strip, `in`.                                 *)
(***************************************************************************)
LowerLetters == "abcdefghijklmnopqrstuvwxyz"

UpperLetters == "ABCDEFGHIJKLMNOPQRSTUVWXYZ"

Digits == "0123456789"

CharAt(s, i) == SubSeq(s, i, i)

IsWhitespace(c) == c \in {" ", "\t", "\n", "\r"}

\* the letters of one case, each mapped to the letter of the other case
ToUpper ==
    [c \in {CharAt(LowerLetters, i) : i \in 1..Len(LowerLetters)} |->
        CharAt(UpperLetters, CHOOSE i \in 1..Len(LowerLetters) : CharAt(LowerLetters, i) = c)]

ToLower ==
    [c \in {CharAt(UpperLetters, i) : i \in 1..Len(UpperLetters)} |->
        CharAt(LowerLetters, CHOOSE i \in 1..Len(UpperLetters) : CharAt(UpperLetters, i) = c)]

IsLower(c) == c \in DOMAIN ToUpper

IsUpper(c) == c \in DOMAIN ToLower

IsDigit(c) == c \in {CharAt(Digits, i) : i \in 1..Len(Digits)}

upper_char(c) == IF IsLower(c) THEN ToUpper[c] ELSE c

lower_char(c) == IF IsUpper(c) THEN ToLower[c] ELSE c

\* the halves are converted apart, to keep the recursion shallow
RECURSIVE upper(_)
upper(s) ==
    IF Len(s) <= 1 THEN upper_char(s)
    ELSE upper(SubSeq(s, 1, Len(s) \div 2)) \o upper(SubSeq(s, (Len(s) \div 2) + 1, Len(s)))

RECURSIVE lower(_)
lower(s) ==
    IF Len(s) <= 1 THEN lower_char(s)
    ELSE lower(SubSeq(s, 1, Len(s) \div 2)) \o lower(SubSeq(s, (Len(s) \div 2) + 1, Len(s)))

RECURSIVE lstrip(_)
lstrip(s) == IF s # "" /\ IsWhitespace(CharAt(s, 1)) THEN lstrip(Tail(s)) ELSE s

RECURSIVE rstrip(_)
rstrip(s) ==
    IF s # "" /\ IsWhitespace(CharAt(s, Len(s)))
    THEN rstrip(SubSeq(s, 1, Len(s) - 1))
    ELSE s

strip(s) == rstrip(lstrip(s))

\* pat in s
contains(s, pat) ==
    \E i \in 1..(Len(s) - Len(pat) + 1) : SubSeq(s, i, i + Len(pat) - 1) = pat

HasWhitespace(s) == \E i \in 1..Len(s) : IsWhitespace(CharAt(s, i))

(***************************************************************************)
(* Python values and the outcome of a call.                                *)
(***************************************************************************)
PyNone == [t |-> "None", n |-> 0, s |-> ""]

PyInt(k) == [t |-> "int", n |-> k, s |-> ""]

PyStr(x) == [t |-> "str", n |-> 0, s |-> x]

\* a finite float, in thousandths
PyFloat(k) == [t |-> "float", n |-> k, s |-> ""]

PyNaN == [t |-> "float", n |-> 0, s |-> "nan"]

PyInf == [t |-> "float", n |-> 0, s |-> "inf"]

\* an object that is neither a number nor a string (a list, a dict)
PyObject == [t |-> "object", n |-> 0, s |-> ""]

\* the attribute is not there: reading it raises AttributeError
PyAbsent == [t |-> "absent", n |-> 0, s |-> ""]

IsFinite(v) == v.t = "float" /\ v.s = ""

\* bool(v)
truthy(v) ==
    CASE v.t = "None" -> FALSE
      [] v.t = "int" -> v.n # 0
      [] v.t = "str" -> v.s # ""
      [] v.t = "float" -> ~(IsFinite(v) /\ v.n = 0)
      [] OTHER -> TRUE

\* a or b
PyOr(a, b) == IF truthy(a) THEN a ELSE b

Ok(v) == [ok |-> TRUE, val |-> v, exc |-> "", msg |-> ""]

Raise(e, m) == [ok |-> FALSE, val |-> PyNone, exc |-> e, msg |-> m]

(***************************************************************************)
(* Exception classes: the built-in hierarchy, the provider SDK's errors    *)
(* and the web framework's HTTPException.                                  *)
(***************************************************************************)
SdkErrors == {"NoApiKeyError", "NotFoundError", "RateLimitError", "ApiError", "TransportError"}

\* the SDK's errors that derive from ApiError
ApiErrors == {"NotFoundError", "RateLimitError", "ApiError"}

IsInstance(exc, cls) ==
    \/ exc = cls
    \/ cls = "Exception"
    \/ cls = "ApiError" /\ exc \in ApiErrors

Trunc(num, den) == IF num >= 0 THEN num \div den ELSE -((-num) \div den)

(***************************************************************************)
(* int(value), float(value), str(value) as Python computes them.           *)
(* Numeric literals with an exponent or with underscores are not modelled. *)
(***************************************************************************)
DigitVal(c) == (CHOOSE i \in 1..Len(Digits) : CharAt(Digits, i) = c) - 1

AllDigits(s) == s # "" /\ \A i \in 1..Len(s) : IsDigit(CharAt(s, i))

RECURSIVE DigitsValue(_, _)
DigitsValue(s, acc) ==
    IF s = "" THEN acc ELSE DigitsValue(Tail(s), 10 * acc + DigitVal(CharAt(s, 1)))

HasSign(s) == s # "" /\ CharAt(s, 1) \in {"+", "-"}

Unsigned(s) == IF HasSign(s) THEN Tail(s) ELSE s

Signed(s, k) == IF s # "" /\ CharAt(s, 1) = "-" THEN -k ELSE k

\* int(value)
py_int(v) ==
    CASE v.t = "int" -> Ok(PyInt(v.n))
      [] v.t = "float" /\ v.s = "" -> Ok(PyInt(Trunc(v.n, 1000)))
      [] v.t = "float" /\ v.s = "nan" -> Raise("ValueError", "cannot convert float NaN to integer")
      [] v.t = "float" /\ v.s = "inf" ->
            Raise("OverflowError", "cannot convert float infinity to integer")
      [] v.t = "str" ->
            LET body == strip(v.s) IN
            IF AllDigits(Unsigned(body))
            THEN Ok(PyInt(Signed(body, DigitsValue(Unsigned(body), 0))))
            ELSE Raise("ValueError", "invalid literal for int() with base 10")
      [] OTHER -> Raise("TypeError", "int() argument must be a string or a real number")

DotAt(s) == IF \E i \in 1..Len(s) : CharAt(s, i) = "."
            THEN CHOOSE i \in 1..Len(s) :
                    CharAt(s, i) = "." /\ \A j \in 1..(i - 1) : CharAt(s, j) # "."
            ELSE 0

\* the first three decimals of a fraction, as thousandths
Thousandths(frac) == DigitsValue(SubSeq(frac \o "000", 1, 3), 0)

\* float(value)
py_float(v) ==
    CASE v.t = "int" -> Ok(PyFloat(1000 * v.n))
      [] v.t = "float" -> Ok(v)
      [] v.t = "str" ->
            LET body == lower(strip(v.s))
                u == Unsigned(body)
                d == DotAt(u)
                whole == IF d = 0 THEN u ELSE SubSeq(u, 1, d - 1)
                frac == IF d = 0 THEN "" ELSE SubSeq(u, d + 1, Len(u))
            IN  IF u = "nan" THEN Ok(PyNaN)
                ELSE IF u \in {"inf", "infinity"} THEN Ok(PyInf)
                ELSE IF /\ whole \o frac # ""
                        /\ whole = "" \/ AllDigits(whole)
                        /\ frac = "" \/ AllDigits(frac)
                THEN Ok(PyFloat(Signed(body, 1000 * DigitsValue(whole, 0) + Thousandths(frac))))
                ELSE Raise("ValueError", "could not convert string to float")
      [] OTHER -> Raise("TypeError", "float() argument must be a string or a real number")

RECURSIVE NatToStr(_)
NatToStr(k) ==
    IF k < 10 THEN CharAt(Digits, k + 1)
    ELSE NatToStr(k \div 10) \o CharAt(Digits, (k % 10) + 1)

IntToStr(k) == IF k < 0 THEN "-" \o NatToStr(-k) ELSE NatToStr(k)

RECURSIVE DropZeros(_)
DropZeros(s) ==
    IF Len(s) > 1 /\ CharAt(s, Len(s)) = "0" THEN DropZeros(SubSeq(s, 1, Len(s) - 1)) ELSE s

Abs(k) == IF k < 0 THEN -k ELSE k

Pad3(k) == SubSeq("00" \o NatToStr(k), Len(NatToStr(k)), Len(NatToStr(k)) + 2)

\* str(value)
py_str(v) ==
    CASE v.t = "int" -> IntToStr(v.n)
      [] v.t = "str" -> v.s
      [] v.t = "float" /\ v.s # "" -> v.s
      [] v.t = "float" /\ v.s = "" ->
            (IF v.n < 0 THEN "-" ELSE "") \o NatToStr(Abs(v.n) \div 1000) \o "."
                \o DropZeros(Pad3(Abs(v.n) % 1000))
      [] v.t = "None" -> "None"
      [] OTHER -> "[]"

(***************************************************************************)
(* FlightRadar24API._safe_int, _safe_float, _safe_str.                     *)
(***************************************************************************)
\* _safe_int without its `except (ValueError, TypeError)`
_safe_int_Uncaught(value) ==
    IF value.t = "None" THEN Ok(PyInt(0)) ELSE py_int(value)

_safe_int(value) ==
    LET Caught(r) == IF r.ok \/ r.exc \notin {"ValueError", "TypeError"} THEN r
                     ELSE Ok(PyInt(0))
    IN  IF value.t = "None" THEN Ok(PyInt(0)) ELSE Caught(py_int(value))

_safe_float(value) ==
    LET Caught(r) == IF r.ok \/ r.exc \notin {"ValueError", "TypeError"} THEN r
                     ELSE Ok(PyFloat(0))
    IN  IF value.t = "None" THEN Ok(PyFloat(0)) ELSE Caught(py_float(value))

_safe_str(value) ==
    IF value.t = "None" THEN "Unknown" ELSE py_str(value)

(***************************************************************************)
(* The live provider (fr24sdk client): one call of                         *)
(* client.live.flight_positions.get_full either raises, or returns a       *)
(* response that is None, has no data, or has a list of records.           *)
(***************************************************************************)
Attrs == {"fr24_id", "flight", "callsign", "alt", "gspeed", "lat", "lon", "track",
          "orig_iata", "orig_icao", "dest_iata", "dest_icao"}

Returned(records) == [kind |-> "data", data |-> records, exc |-> "", msg |-> ""]

ResponseNone == [kind |-> "none", data |-> <<>>, exc |-> "", msg |-> ""]

NoData == [kind |-> "nodata", data |-> <<>>, exc |-> "", msg |-> ""]

Raised(e, m) == [kind |-> "raise", data |-> <<>>, exc |-> e, msg |-> m]

\* not response or not response.data or len(response.data) == 0
IsEmptyResponse(q) == q.kind \in {"none", "nodata"} \/ (q.kind = "data" /\ Len(q.data) = 0)

\* one call get_full(<by>=[arg]) or get_full(routes=[arg], limit=limit)
Query(by, arg, limit) == [by |-> by, arg |-> arg, limit |-> limit]

\* flight.<name>
GetAttr(flight, name) ==
    IF flight[name].t = "absent"
    THEN Raise("AttributeError", "'FlightPositionsFull' object has no attribute '" \o name \o "'")
    ELSE Ok(flight[name])

\* the first call of a sequence of calls that raised, or the last one
RECURSIVE FirstRaise(_)
FirstRaise(rs) ==
    IF Len(rs) = 1 \/ ~Head(rs).ok THEN Head(rs) ELSE FirstRaise(Tail(rs))

(***************************************************************************)
(* FlightRadar24API.get_flight_data: the record built from response.data[0]*)
(***************************************************************************)
FlightData(flight) ==
    [flight_id |-> PyStr(_safe_str(flight["fr24_id"])),
     flight_altitude |-> _safe_int(flight["alt"]).val,
     flight_speed |-> _safe_int(flight["gspeed"]).val,
     flight_latitude |-> _safe_float(flight["lat"]).val,
     flight_longitude |-> _safe_float(flight["lon"]).val,
     flight_direction |-> _safe_int(flight["track"]).val,
     flight_departure_airport |->
        PyStr(IF truthy(flight["orig_iata"]) THEN _safe_str(flight["orig_iata"])
              ELSE _safe_str(flight["orig_icao"])),
     flight_arrival_airport |->
        PyStr(IF truthy(flight["dest_iata"]) THEN _safe_str(flight["dest_iata"])
              ELSE _safe_str(flight["dest_icao"]))]

\* lines 130-157: the attribute reads and conversions, in the order of evaluation
ExtractFlightData(flight_id, flight) ==
    LET Built(reads) ==
            IF reads.ok THEN Ok(FlightData(flight))
            ELSE IF reads.exc \in {"AttributeError", "TypeError"}
            THEN Raise("KeyError",
                       "Missing required flight data fields for " \o flight_id \o ": "
                       \o reads.msg)
            ELSE reads
    IN  Built(FirstRaise(<<
            GetAttr(flight, "orig_iata"),
            IF truthy(flight["orig_iata"]) THEN Ok(PyNone) ELSE GetAttr(flight, "orig_icao"),
            GetAttr(flight, "dest_iata"),
            IF truthy(flight["dest_iata"]) THEN Ok(PyNone) ELSE GetAttr(flight, "dest_icao"),
            GetAttr(flight, "fr24_id"),
            IF flight["alt"].t = "absent" THEN GetAttr(flight, "alt") ELSE _safe_int(flight["alt"]),
            IF flight["gspeed"].t = "absent" THEN GetAttr(flight, "gspeed")
                ELSE _safe_int(flight["gspeed"]),
            IF flight["lat"].t = "absent" THEN GetAttr(flight, "lat")
                ELSE _safe_float(flight["lat"]),
            IF flight["lon"].t = "absent" THEN GetAttr(flight, "lon")
                ELSE _safe_float(flight["lon"]),
            IF flight["track"].t = "absent" THEN GetAttr(flight, "track")
                ELSE _safe_int(flight["track"])>>))

\* the provider's ApiError re-raised as a ValueError
MapProviderError_ApiAsValueError(flight_id, q) ==
    IF IsInstance(q.exc, "ValueError") THEN Raise(q.exc, q.msg)
    ELSE IF IsInstance(q.exc, "NoApiKeyError")
    THEN Raise("ValueError",
               "FlightRadar24 API token is required. "
               \o "Set FR24_API_TOKEN environment variable or pass api_token parameter.")
    ELSE IF IsInstance(q.exc, "NotFoundError")
    THEN Raise("ValueError", "Flight " \o flight_id \o " not found")
    ELSE IF IsInstance(q.exc, "ApiError")
    THEN Raise("ValueError",
               "FlightRadar24 API error for " \o flight_id \o ": " \o q.msg)
    ELSE Raise("ConnectionError",
               "Failed to fetch live flight data for " \o flight_id \o ": " \o q.msg)

\* lines 108-126: an error of the provider call, as get_flight_data re-raises it
MapProviderError(flight_id, q) ==
    IF IsInstance(q.exc, "ValueError") THEN Raise(q.exc, q.msg)
    ELSE IF IsInstance(q.exc, "NoApiKeyError")
    THEN Raise("ValueError",
               "FlightRadar24 API token is required. "
               \o "Set FR24_API_TOKEN environment variable or pass api_token parameter.")
    ELSE IF IsInstance(q.exc, "NotFoundError")
    THEN Raise("ValueError", "Flight " \o flight_id \o " not found")
    ELSE IF IsInstance(q.exc, "ApiError")
    THEN Raise("ConnectionError",
               "FlightRadar24 API error for " \o flight_id \o ": " \o q.msg)
    ELSE Raise("ConnectionError",
               "Failed to fetch live flight data for " \o flight_id \o ": " \o q.msg)

\* get_flight_data without the second query: not found after one empty answer
get_flight_data_NoRetry(flight_id, q1, q2) ==
    LET Fetch(id) ==
            IF q1.kind = "raise"
            THEN [result |-> MapProviderError(id, q1), queries |-> <<Query("flights", id, 0)>>]
            ELSE IF ~IsEmptyResponse(q1)
            THEN [result |-> ExtractFlightData(id, q1.data[1]),
                  queries |-> <<Query("flights", id, 0)>>]
            ELSE [result |-> Raise("ValueError",
                        "Flight " \o id \o " not found in live tracking data. "
                        \o "The flight may not be currently active or the flight ID "
                        \o "may be incorrect."),
                  queries |-> <<Query("flights", id, 0)>>]
    IN  IF flight_id = "" \/ strip(flight_id) = ""
        THEN [result |-> Raise("ValueError", "flight_id cannot be empty"), queries |-> <<>>]
        ELSE Fetch(upper(strip(flight_id)))

\* get_flight_data(flight_id), q1 and q2 being what the provider answers to the
\* first and to the second query; [result, queries]
get_flight_data(flight_id, q1, q2) ==
    LET Fetch(id) ==
            IF q1.kind = "raise"
            THEN [result |-> MapProviderError(id, q1), queries |-> <<Query("flights", id, 0)>>]
            ELSE IF ~IsEmptyResponse(q1)
            THEN [result |-> ExtractFlightData(id, q1.data[1]),
                  queries |-> <<Query("flights", id, 0)>>]
            ELSE IF q2.kind = "raise"
            THEN [result |-> MapProviderError(id, q2),
                  queries |-> <<Query("flights", id, 0), Query("callsigns", id, 0)>>]
            ELSE IF ~IsEmptyResponse(q2)
            THEN [result |-> ExtractFlightData(id, q2.data[1]),
                  queries |-> <<Query("flights", id, 0), Query("callsigns", id, 0)>>]
            ELSE [result |-> Raise("ValueError",
                        "Flight " \o id \o " not found in live tracking data. "
                        \o "The flight may not be currently active or the flight ID "
                        \o "may be incorrect."),
                  queries |-> <<Query("flights", id, 0), Query("callsigns", id, 0)>>]
    IN  IF flight_id = "" \/ strip(flight_id) = ""
        THEN [result |-> Raise("ValueError", "flight_id cannot be empty"), queries |-> <<>>]
        ELSE Fetch(upper(strip(flight_id)))

(***************************************************************************)
(* flight_service.py: the lazily created client, the unit conversion and   *)
(* get_flight_info.                                                        *)
(***************************************************************************)
\* FlightRadar24API.__init__: `made` is what importing the SDK and building
\* its Client does (the Client raises NoApiKeyError when it has no token)
FlightRadar24API_init(made) ==
    IF made.exc = "ImportError"
    THEN Raise("ImportError",
               "fr24sdk library is not installed. Install it with: pip install fr24sdk")
    ELSE IF made.exc # "" THEN Raise(made.exc, made.msg)
    ELSE Ok(PyNone)

\* get_flight_api keeping the instance whose construction raised
get_flight_api_KeepsFailed(flight_api, fresh, made) ==
    LET Assign(built) ==
            IF built.ok
            THEN [result |-> Ok(PyInt(fresh)), flight_api |-> fresh, constructed |-> 1]
            ELSE [result |-> built, flight_api |-> fresh, constructed |-> 0]
    IN  IF flight_api = 0 THEN Assign(FlightRadar24API_init(made))
        ELSE [result |-> Ok(PyInt(flight_api)), flight_api |-> flight_api, constructed |-> 0]

\* get_flight_api without its `if _flight_api is None`
get_flight_api_AlwaysNew(flight_api, fresh, made) ==
    LET Assign(built) ==
            IF built.ok
            THEN [result |-> Ok(PyInt(fresh)), flight_api |-> fresh, constructed |-> 1]
            ELSE [result |-> built, flight_api |-> 0, constructed |-> 0]
    IN  Assign(FlightRadar24API_init(made))

\* get_flight_api(): flight_api is the module's _flight_api (0 for None), fresh
\* the identity a newly constructed client gets; [result, flight_api, constructed]
get_flight_api(flight_api, fresh, made) ==
    LET Assign(built) ==
            IF built.ok
            THEN [result |-> Ok(PyInt(fresh)), flight_api |-> fresh, constructed |-> 1]
            ELSE [result |-> built, flight_api |-> 0, constructed |-> 0]
    IN  IF flight_api = 0 THEN Assign(FlightRadar24API_init(made))
        ELSE [result |-> Ok(PyInt(flight_api)), flight_api |-> flight_api, constructed |-> 0]

\* floor(k * 1.15078) for k >= 0, as k + k * 7539 / 50000 in steps that stay
\* within 32 bits.  The double product of the code has this integer part for
\* every k below 50000; at 50000 itself it is 57538.99..., one below
ScaleKnots(k) == k + (k \div 50000) * 7539 + ((k % 50000) * 7539) \div 50000

\* the factor of knots to km/h, 1.852, in place of 1.15078
_knots_to_mph_Kmh(knots) ==
    CASE knots.t = "int" ->
            Ok(PyInt(IF knots.n >= 0 THEN (knots.n * 1852) \div 1000
                     ELSE -(((-knots.n) * 1852) \div 1000)))
      [] knots.t = "float" /\ knots.s = "" ->
            Ok(PyInt(IF knots.n >= 0 THEN (knots.n * 1852) \div 1000000
                     ELSE -(((-knots.n) * 1852) \div 1000000)))
      [] knots.t = "float" /\ knots.s = "nan" ->
            Raise("ValueError", "cannot convert float NaN to integer")
      [] knots.t = "float" /\ knots.s = "inf" ->
            Raise("OverflowError", "cannot convert float infinity to integer")
      [] OTHER -> Raise("TypeError", "unsupported operand type(s) for *")

\* round(knots * 1.15078) in place of int(knots * 1.15078)
_knots_to_mph_Rounded(knots) ==
    CASE knots.t = "int" ->
            Ok(PyInt(IF knots.n >= 0 THEN (knots.n * 115078 + 50000) \div 100000
                     ELSE -(((-knots.n) * 115078 + 50000) \div 100000)))
      [] knots.t = "float" /\ knots.s = "" ->
            Ok(PyInt(IF knots.n >= 0 THEN (ScaleKnots(knots.n) + 500) \div 1000
                     ELSE -((ScaleKnots(-knots.n) + 500) \div 1000)))
      [] knots.t = "float" /\ knots.s = "nan" ->
            Raise("ValueError", "cannot convert float NaN to integer")
      [] knots.t = "float" /\ knots.s = "inf" ->
            Raise("OverflowError", "cannot convert float infinity to integer")
      [] OTHER -> Raise("TypeError", "unsupported operand type(s) for *")

\* int(knots * 1.15078): int() truncates toward zero
_knots_to_mph(knots) ==
    CASE knots.t = "int" ->
            Ok(PyInt(IF knots.n >= 0 THEN ScaleKnots(knots.n) ELSE -ScaleKnots(-knots.n)))
      [] knots.t = "float" /\ knots.s = "" ->
            Ok(PyInt(IF knots.n >= 0 THEN ScaleKnots(knots.n) \div 1000
                     ELSE -(ScaleKnots(-knots.n) \div 1000)))
      [] knots.t = "float" /\ knots.s = "nan" ->
            Raise("ValueError", "cannot convert float NaN to integer")
      [] knots.t = "float" /\ knots.s = "inf" ->
            Raise("OverflowError", "cannot convert float infinity to integer")
      [] OTHER -> Raise("TypeError", "unsupported operand type(s) for *")

PyDict(d) == [t |-> "dict", n |-> 0, s |-> "", d |-> d]

\* str(e)
StrOfError(e) ==
    CASE e.exc = "KeyError" -> "'" \o e.msg \o "'"
      [] e.exc = "HTTPException" -> IntToStr(e.val.n) \o ": " \o e.msg
      [] OTHER -> e.msg

\* lines 71-110: the response dictionary
FlightInfo(flight_number, flight_data) ==
    [flight_id |-> flight_data.flight_id,
     flight_number |-> PyStr(flight_number),
     flight_status |-> PyStr("In Flight"),
     flight_gate |-> PyStr("N/A"),
     flight_terminal |-> PyStr("N/A"),
     aircraft_type |-> PyNone,
     departure_airport |-> flight_data.flight_departure_airport,
     arrival_airport |-> flight_data.flight_arrival_airport,
     altitude_ft |-> flight_data.flight_altitude,
     speed_mph |-> _knots_to_mph(flight_data.flight_speed).val,
     speed_knots |-> flight_data.flight_speed,
     latitude |-> flight_data.flight_latitude,
     longitude |-> flight_data.flight_longitude,
     direction |-> flight_data.flight_direction,
     data_source |-> PyStr("flightradar24"),
     is_live |-> TRUE]

\* the handlers of get_flight_info looking for "not found" in an error of any kind
FoldError_AnyKind(e) ==
    IF contains(lower(StrOfError(e)), "not found") THEN Ok(PyNone)
    ELSE IF IsInstance(e.exc, "ValueError") \/ IsInstance(e.exc, "ConnectionError") THEN e
    ELSE Raise("ConnectionError", "Failed to fetch flight data: " \o StrOfError(e))

\* the handlers of get_flight_info looking for "not found" without lower()
FoldError_CaseSensitive(e) ==
    IF IsInstance(e.exc, "ValueError")
    THEN IF contains(e.msg, "not found") THEN Ok(PyNone) ELSE e
    ELSE IF IsInstance(e.exc, "ConnectionError") THEN e
    ELSE Raise("ConnectionError", "Failed to fetch flight data: " \o StrOfError(e))

\* lines 112-123: what get_flight_info does with an error raised in its try block
FoldError(e) ==
    IF IsInstance(e.exc, "ValueError")
    THEN IF contains(lower(e.msg), "not found") THEN Ok(PyNone) ELSE e
    ELSE IF IsInstance(e.exc, "ConnectionError") THEN e
    ELSE Raise("ConnectionError", "Failed to fetch flight data: " \o StrOfError(e))

\* get_flight_info without its check for an empty flight_number
get_flight_info_NoGuard(flight_number, flight_api, fresh, made, q1, q2) ==
    LET Body(number, got, data) ==
            IF ~got.result.ok THEN got.result
            ELSE IF ~data.result.ok THEN data.result
            ELSE Ok(PyDict(FlightInfo(number, data.result.val)))
        Outcome(got, data, body) ==
            [result |-> IF body.ok THEN body ELSE FoldError(body),
             flight_api |-> got.flight_api,
             constructed |-> got.constructed,
             api |-> IF got.result.ok THEN got.result.val.n ELSE 0,
             queries |-> IF got.result.ok THEN data.queries ELSE <<>>,
             raised |-> IF body.ok THEN Ok(PyNone) ELSE body]
        Try(number, got, data) == Outcome(got, data, Body(number, got, data))
    IN  Try(upper(strip(flight_number)),
            get_flight_api(flight_api, fresh, made),
            get_flight_data(upper(strip(flight_number)), q1, q2))

\* get_flight_info(flight_number); [result, flight_api, constructed, api, queries, raised]:
\* api is the client get_flight_api returned (0: none), raised the error the try
\* block ended with (Ok when it returned)
get_flight_info(flight_number, flight_api, fresh, made, q1, q2) ==
    LET Body(number, got, data) ==
            IF ~got.result.ok THEN got.result
            ELSE IF ~data.result.ok THEN data.result
            ELSE Ok(PyDict(FlightInfo(number, data.result.val)))
        Outcome(got, data, body) ==
            [result |-> IF body.ok THEN body ELSE FoldError(body),
             flight_api |-> got.flight_api,
             constructed |-> got.constructed,
             api |-> IF got.result.ok THEN got.result.val.n ELSE 0,
             queries |-> IF got.result.ok THEN data.queries ELSE <<>>,
             raised |-> IF body.ok THEN Ok(PyNone) ELSE body]
        Try(number, got, data) == Outcome(got, data, Body(number, got, data))
    IN  IF flight_number = "" \/ strip(flight_number) = ""
        THEN [result |-> Ok(PyNone), flight_api |-> flight_api, constructed |-> 0,
              api |-> 0, queries |-> <<>>, raised |-> Ok(PyNone)]
        ELSE Try(upper(strip(flight_number)),
                 get_flight_api(flight_api, fresh, made),
                 get_flight_data(upper(strip(flight_number)), q1, q2))

(***************************************************************************)
(* ai_service.py: chat_completion and simple_chat.  `client` is the        *)
(* module's OpenAI client (FALSE: OPENAI_KEY was not set), `ai` what the   *)
(* completion call does: [kind, text], kind one of "text" (a choice with   *)
(* that content), "nocontent" (a choice whose content is None),            *)
(* "nochoices", "raise".                                                   *)
(***************************************************************************)
chat_completion(messages, client, ai) ==
    IF ~client
    THEN [result |-> Raise("ValueError", "OPENAI_KEY not found in environment variables"),
          sent |-> <<>>]
    ELSE [result |->
            CASE ai.kind = "raise" -> Raise("ValueError", "OpenAI API error: " \o ai.text)
              [] ai.kind = "text" -> Ok(PyStr(ai.text))
              [] OTHER -> Ok(PyNone),
          sent |-> <<messages>>]

\* the parameters of simple_chat(user_message, system_message=None, model=...)
SimpleChatParams == {"user_message", "system_message", "model"}

\* simple_chat(**kwargs): kwargs maps the keywords of the call to their values
simple_chat(kwargs, client, ai) ==
    LET System ==
            IF "system_message" \in DOMAIN kwargs /\ truthy(kwargs["system_message"])
            THEN <<[role |-> "system", content |-> kwargs["system_message"].s]>>
            ELSE <<>>
        Answer(done) ==
            [result |-> IF done.result.ok /\ ~truthy(done.result.val)
                        THEN Raise("ValueError", "No response from OpenAI")
                        ELSE done.result,
             sent |-> done.sent]
    IN  IF ~(DOMAIN kwargs \subseteq SimpleChatParams)
        THEN [result |-> Raise("TypeError",
                               "simple_chat() got an unexpected keyword argument '"
                               \o (CHOOSE k \in DOMAIN kwargs : k \notin SimpleChatParams)
                               \o "'"),
              sent |-> <<>>]
        ELSE Answer(chat_completion(
                System \o <<[role |-> "user", content |-> kwargs["user_message"].s]>>,
                client, ai))

(***************************************************************************)
(* index.py: the handlers.  An HTTPException carries its status code in    *)
(* val and its detail in msg.                                              *)
(***************************************************************************)
HTTPException(status_code, detail) ==
    [ok |-> FALSE, val |-> PyInt(status_code), exc |-> "HTTPException", msg |-> detail]

\* the opening sentence of CALMING_SYSTEM_PROMPT; the rest is fixed text too
CALMING_SYSTEM_PROMPT == "You are a flight calming assistant."

\* format(value, ".4f")
Format4f(v) ==
    IF v.t = "float" /\ v.s # "" THEN v.s
    ELSE LET k == IF v.t = "float" THEN v.n ELSE 1000 * v.n IN
         (IF k < 0 THEN "-" ELSE "") \o NatToStr(Abs(k) \div 1000) \o "."
            \o Pad3(Abs(k) % 1000) \o "0"

\* lines 217-239: the user message rendered from the flight dictionary
\* (the degree sign after the heading is left out)
CalmingUserMessage(d) ==
    LET altitude == py_str(d.altitude_ft)
        speed == py_str(d.speed_knots)
        origin == py_str(d.departure_airport)
        destination == py_str(d.arrival_airport)
    IN  "\nLIVE Flight Status (real-time data from FlightRadar24):\n"
        \o "- Flight Number: " \o py_str(d.flight_number) \o "\n"
        \o "- Status: In Flight\n"
        \o "- CURRENT ALTITUDE: " \o altitude \o " feet\n"
        \o "- CURRENT SPEED: " \o speed \o " knots\n"
        \o "- ORIGIN: " \o origin \o "\n"
        \o "- DESTINATION: " \o destination \o "\n"
        \o "- Position: (" \o Format4f(d.latitude) \o ", " \o Format4f(d.longitude) \o ")\n"
        \o "- Heading: " \o py_str(d.direction) \o "\n"
        \o "\n\nGenerate a calming, informative message about this flight's current status.\n"
        \o "Use these EXACT values: Altitude: " \o altitude \o " feet, Speed: " \o speed
        \o " knots.\n"
        \o "The passenger is on a flight from " \o origin \o " to " \o destination \o "."

NotFoundDetail(flight_id) ==
    "Flight '" \o flight_id \o "' not found. The flight may not be currently active."

\* what a handler answers: the status, the error detail or the JSON body
HttpError(e) == [status |-> e.val.n, detail |-> e.msg, body |-> PyNone, message |-> ""]

HttpOk(body, message) == [status |-> 200, detail |-> "", body |-> body, message |-> message]

\* GET /api/flight: info is what get_flight_info(flight_id) did
get_flight(flight_id, info) ==
    LET Handle(tried) ==
            IF tried.ok THEN HttpOk(tried.val, "")
            ELSE IF IsInstance(tried.exc, "ValueError")
            THEN HttpError(HTTPException(400, StrOfError(tried)))
            ELSE IF IsInstance(tried.exc, "ConnectionError")
            THEN HttpError(HTTPException(503,
                    "Flight data service unavailable: " \o StrOfError(tried)))
            ELSE HttpError(HTTPException(500, "Internal server error: " \o StrOfError(tried)))
    IN  Handle(IF info.ok /\ info.val.t = "None"
               THEN HTTPException(404, NotFoundDetail(flight_id))
               ELSE info)

\* get_calming_message without its `except HTTPException: raise`
get_calming_message_NoReraise(flight_id, info, client, ai) ==
    LET Handle(tried, sent) ==
            [sent |-> sent,
             http |->
                IF tried.ok THEN HttpOk(info.val, tried.val.s)
                ELSE IF IsInstance(tried.exc, "ValueError")
                THEN HttpError(HTTPException(400, StrOfError(tried)))
                ELSE IF IsInstance(tried.exc, "ConnectionError")
                THEN HttpError(HTTPException(503, "Service unavailable: " \o StrOfError(tried)))
                ELSE HttpError(HTTPException(500,
                        "Internal server error: " \o StrOfError(tried)))]
        Chat(chat) == Handle(chat.result, chat.sent)
    IN  IF ~info.ok THEN Handle(info, <<>>)
        ELSE IF info.val.t = "None"
        THEN Handle(HTTPException(404, NotFoundDetail(flight_id)), <<>>)
        ELSE Chat(simple_chat([user_message |-> PyStr(CalmingUserMessage(info.val.d)),
                               system_prompt |-> PyStr(CALMING_SYSTEM_PROMPT)], client, ai))

\* GET /api/flight/{flight_id}/calming-message; [http, sent]: sent is the list of
\* message lists handed to the text-generation service
get_calming_message(flight_id, info, client, ai) ==
    LET Handle(tried, sent) ==
            [sent |-> sent,
             http |->
                IF tried.ok THEN HttpOk(info.val, tried.val.s)
                ELSE IF IsInstance(tried.exc, "HTTPException") THEN HttpError(tried)
                ELSE IF IsInstance(tried.exc, "ValueError")
                THEN HttpError(HTTPException(400, StrOfError(tried)))
                ELSE IF IsInstance(tried.exc, "ConnectionError")
                THEN HttpError(HTTPException(503, "Service unavailable: " \o StrOfError(tried)))
                ELSE HttpError(HTTPException(500,
                        "Internal server error: " \o StrOfError(tried)))]
        Chat(chat) == Handle(chat.result, chat.sent)
    IN  IF ~info.ok THEN Handle(info, <<>>)
        ELSE IF info.val.t = "None"
        THEN Handle(HTTPException(404, NotFoundDetail(flight_id)), <<>>)
        ELSE Chat(simple_chat([user_message |-> PyStr(CalmingUserMessage(info.val.d)),
                               system_prompt |-> PyStr(CALMING_SYSTEM_PROMPT)], client, ai))

\* POST /api/ai/chat: request.message and request.system_prompt; [sent, http]
ai_chat(message, system_prompt, client, ai) ==
    LET Answered(said) ==
            [sent |-> said.sent,
             http |-> IF said.result.ok
                      THEN HttpOk(PyDict([response |-> said.result.val]), "")
                      ELSE IF IsInstance(said.result.exc, "ValueError")
                      THEN HttpError(HTTPException(400, StrOfError(said.result)))
                      ELSE HttpError(HTTPException(500,
                                "AI service error: " \o StrOfError(said.result)))]
    IN  Answered(simple_chat([user_message |-> PyStr(message),
                             system_prompt |-> system_prompt], client, ai))

(***************************************************************************)
(* flight_service.search_flights_by_route and GET /api/flights/search.     *)
(***************************************************************************)
PyList(items) == [t |-> "list", n |-> 0, s |-> "", d |-> items]

\* lines 171-199: the dictionary built from one record of the response
SearchInfo(flight) ==
    [flight_id |-> flight["fr24_id"],
     flight_number |-> PyOr(PyOr(flight["flight"], flight["callsign"]), PyStr("Unknown")),
     flight_status |-> PyStr("In Flight"),
     flight_gate |-> PyStr("N/A"),
     flight_terminal |-> PyStr("N/A"),
     departure_airport |->
        PyOr(PyOr(flight["orig_iata"], flight["orig_icao"]), PyStr("Unknown")),
     arrival_airport |->
        PyOr(PyOr(flight["dest_iata"], flight["dest_icao"]), PyStr("Unknown")),
     altitude_ft |-> flight["alt"],
     speed_mph |-> _knots_to_mph(flight["gspeed"]).val,
     speed_knots |-> flight["gspeed"],
     latitude |-> flight["lat"],
     longitude |-> flight["lon"],
     direction |-> flight["track"],
     data_source |-> PyStr("flightradar24"),
     is_live |-> TRUE]

\* the attribute reads and the conversion of one loop iteration, in order
SearchRecord(flight) ==
    LET Built(reads) == IF reads.ok THEN Ok(PyDict(SearchInfo(flight))) ELSE reads
    IN  Built(FirstRaise(<<
            GetAttr(flight, "gspeed"),
            IF flight["gspeed"].t = "absent" THEN Ok(PyNone) ELSE _knots_to_mph(flight["gspeed"]),
            GetAttr(flight, "flight"),
            IF truthy(flight["flight"]) THEN Ok(PyNone) ELSE GetAttr(flight, "callsign"),
            GetAttr(flight, "fr24_id"),
            GetAttr(flight, "orig_iata"),
            IF truthy(flight["orig_iata"]) THEN Ok(PyNone) ELSE GetAttr(flight, "orig_icao"),
            GetAttr(flight, "dest_iata"),
            IF truthy(flight["dest_iata"]) THEN Ok(PyNone) ELSE GetAttr(flight, "dest_icao"),
            GetAttr(flight, "alt"),
            GetAttr(flight, "lat"),
            GetAttr(flight, "lon"),
            GetAttr(flight, "track")>>))

\* the loop of lines 170-199 over response.data
RECURSIVE SearchRecords(_)
SearchRecords(data) ==
    LET Joined(first, rest) ==
            IF ~rest.ok THEN rest ELSE Ok(PyList(<<first.val>> \o rest.val.d))
        Step(first) == IF ~first.ok THEN first ELSE Joined(first, SearchRecords(Tail(data)))
    IN  IF data = <<>> THEN Ok(PyList(<<>>)) ELSE Step(SearchRecord(Head(data)))

\* lines 149-155
Route(departure, arrival) ==
    IF truthy(departure) /\ truthy(arrival) THEN upper(departure.s) \o "-" \o upper(arrival.s)
    ELSE IF truthy(departure) THEN upper(departure.s) \o "-"
    ELSE "-" \o upper(arrival.s)

\* search_flights_by_route(departure, arrival, limit), q being what the provider
\* answers to the route query; [result, flight_api, constructed, api, queries, raised]
search_flights_by_route(departure, arrival, limit, flight_api, fresh, made, q) ==
    LET Body(got) ==
            IF ~got.result.ok THEN got.result
            ELSE IF q.kind = "raise" THEN Raise(q.exc, q.msg)
            ELSE IF IsEmptyResponse(q) THEN Ok(PyList(<<>>))
            ELSE SearchRecords(q.data)
        Outcome(got, body) ==
            [result |-> IF body.ok THEN body
                        ELSE Raise("ConnectionError",
                                   "Failed to search flights: " \o StrOfError(body)),
             flight_api |-> got.flight_api,
             constructed |-> got.constructed,
             api |-> IF got.result.ok THEN got.result.val.n ELSE 0,
             queries |-> IF got.result.ok
                         THEN <<Query("routes", Route(departure, arrival), limit)>> ELSE <<>>,
             raised |-> IF body.ok THEN Ok(PyNone) ELSE body]
        Try(got) == Outcome(got, Body(got))
    IN  IF ~truthy(departure) /\ ~truthy(arrival)
        THEN [result |-> Ok(PyList(<<>>)), flight_api |-> flight_api, constructed |-> 0,
              api |-> 0, queries |-> <<>>, raised |-> Ok(PyNone)]
        ELSE Try(get_flight_api(flight_api, fresh, made))

\* GET /api/flights/search: the check of lines 114-118 comes before the search
NeedsRoute(departure, arrival) == ~truthy(departure) /\ ~truthy(arrival)

search_flights(found) ==
    IF found.ok THEN HttpOk(found.val, "")
    ELSE IF IsInstance(found.exc, "ConnectionError")
    THEN HttpError(HTTPException(503, "Flight data service unavailable: " \o StrOfError(found)))
    ELSE HttpError(HTTPException(500, "Internal server error: " \o StrOfError(found)))

(***************************************************************************)
(* The inputs: what clients send and what the provider and the             *)
(* text-generation service answer.                                         *)
(***************************************************************************)
Requests == 1..MaxRequests

FlightIds == {"", " \t", "UA837", " ua 837 ", "not found"}

Record(fr24_id, flight, callsign, alt, gspeed, lat, lon, track, orig, dest) ==
    [fr24_id |-> fr24_id, flight |-> flight, callsign |-> callsign, alt |-> alt,
     gspeed |-> gspeed, lat |-> lat, lon |-> lon, track |-> track,
     orig_iata |-> orig[1], orig_icao |-> orig[2],
     dest_iata |-> dest[1], dest_icao |-> dest[2]]

\* a well-formed record
Cruising ==
    Record(PyStr("3a1b2c3d"), PyStr("UA837"), PyStr("UAL837"), PyInt(35000), PyInt(450),
           PyFloat(37621), PyFloat(-122379), PyInt(270),
           <<PyStr("SFO"), PyStr("KSFO")>>, <<PyStr("NRT"), PyStr("RJAA")>>)

\* a record with missing and malformed fields
Degraded ==
    Record(PyStr("3a1b2c3e"), PyNone, PyNone, PyStr("n/a"), PyNone,
           PyNone, PyStr("abc"), PyObject,
           <<PyNone, PyStr("KSFO")>>, <<PyStr(""), PyStr("")>>)

\* a record as a feed that does not normalise its text would give it
Raw ==
    Record(PyStr("3a1b2c3f"), PyStr("ua 837"), PyStr("ual837"), PyFloat(1200500), PyFloat(450500),
           PyStr("37.621"), PyInt(-122), PyStr(" 90 "),
           <<PyStr(""), PyNone>>, <<PyNone, PyStr("rjaa")>>)

\* a record that lacks an attribute the adapter reads
Truncated == [Cruising EXCEPT !["alt"] = PyAbsent]

\* response.data
DataLists == {<<>>, <<Cruising>>, <<Degraded>>, <<Raw, Cruising>>, <<Cruising, Degraded, Raw>>,
              <<Truncated>>}

\* the errors the SDK raises, with their str(e)
ProviderErrors ==
    {Raised("ValueError", "Resource Not Found"),
     Raised("ValueError", "invalid flights parameter"),
     Raised("ApiError", "404 Not Found"),
     Raised("NotFoundError", "no such flight"),
     Raised("RateLimitError", "rate limit exceeded"),
     Raised("NoApiKeyError", "API key is missing"),
     Raised("TransportError", "connection timed out")}

Answers == {ResponseNone, NoData} \cup {Returned(d) : d \in DataLists} \cup ProviderErrors

Built == [exc |-> "", msg |-> ""]

Makes == {Built,
          [exc |-> "ImportError", msg |-> "No module named 'fr24sdk'"],
          [exc |-> "NoApiKeyError", msg |-> "API key is missing"]}

AiAnswers == {[kind |-> "text", text |-> "All is well at cruising altitude."],
              [kind |-> "text", text |-> ""],
              [kind |-> "nocontent", text |-> ""],
              [kind |-> "nochoices", text |-> ""],
              [kind |-> "raise", text |-> "Connection error."]}

NoAi == [kind |-> "nochoices", text |-> ""]

Airports == {PyNone, PyStr(""), PyStr("sfo")}

Limits == {1, 2}

\* the body of POST /api/ai/chat
ChatMessages == {"", "Is turbulence dangerous?"}

SystemPrompts == {PyNone, PyStr("Answer in one sentence.")}

(***************************************************************************)
(* The state: the module globals (_flight_api, 0 for None; the OpenAI      *)
(* client), the number of provider clients constructed so far, the         *)
(* requests, and the request the event loop has just served with the calls *)
(* it made.  The handlers are coroutines of one event loop and none of     *)
(* them suspends before its response is ready, so each runs as one step.   *)
(***************************************************************************)
VARIABLES _flight_api, instances, client, reqs, served

vars == <<_flight_api, instances, client, reqs, served>>

Nothing == [endpoint |-> ""]

NoRoute == <<PyNone, PyNone, 0>>

\* the record of a served request: what it was sent, what it answered and the
\* calls it made (answers are the provider's answers to its queries, in order)
Served(r, endpoint, flight_id, route, http, did, answers, ai, sent) ==
    [req |-> r, endpoint |-> endpoint, flight_id |-> flight_id,
     departure |-> route[1], arrival |-> route[2], limit |-> route[3],
     http |-> http, result |-> did.result, raised |-> did.raised,
     before |-> _flight_api, api |-> did.api, constructed |-> did.constructed,
     queries |-> did.queries, answers |-> SubSeq(answers, 1, Len(did.queries)),
     ai |-> ai, sent |-> sent]

Init ==
    /\ _flight_api = 0
    /\ instances = 0
    /\ client \in BOOLEAN
    /\ reqs = [r \in Requests |-> [pc |-> "idle", first_use |-> FALSE, api |-> 0]]
    /\ served = Nothing

\* the event loop accepts a request and schedules its handler; it does so
\* between two handler runs, a running handler never yielding to it
Arrive(r) ==
    /\ reqs[r].pc = "idle"
    /\ served = Nothing
    /\ reqs' = [reqs EXCEPT ![r] = [pc |-> "waiting", first_use |-> (_flight_api = 0),
                                    api |-> 0]]
    /\ UNCHANGED <<_flight_api, instances, client, served>>

\* what constructing the client does, drawn only when it is constructed
MakesNow(called) == IF called /\ _flight_api = 0 THEN Makes ELSE {Built}

\* what the first query is answered, drawn only when it is issued
FirstAnswers(called, made) == IF called /\ made = Built THEN Answers ELSE {ResponseNone}

\* what the second query is answered, drawn only when it is issued
SecondAnswers(q1) == IF IsEmptyResponse(q1) THEN Answers ELSE {ResponseNone}

\* what the text-generation service answers, drawn only when it can be called
AiNow(info) == IF info.ok /\ info.val.t = "dict" THEN AiAnswers ELSE {NoAi}

Finish(r, did) ==
    /\ _flight_api' = did.flight_api
    /\ instances' = instances + did.constructed
    /\ reqs' = [reqs EXCEPT ![r].pc = "done", ![r].api = did.api]
    /\ UNCHANGED client

\* the event loop runs get_flight for request r
GetFlight(r) ==
    /\ reqs[r].pc = "waiting"
    /\ served = Nothing
    /\ \E flight_id \in FlightIds :
         \E made \in MakesNow(strip(flight_id) # "") :
         \E q1 \in FirstAnswers(strip(flight_id) # "", made) :
         \E q2 \in SecondAnswers(q1) :
         \E did \in {get_flight_info(flight_id, _flight_api, instances + 1, made, q1, q2)} :
            /\ served' = Served(r, "get_flight", flight_id, NoRoute,
                                get_flight(flight_id, did.result), did, <<q1, q2>>, NoAi, <<>>)
            /\ Finish(r, did)

\* the event loop runs get_calming_message for request r
GetCalmingMessage(r) ==
    /\ reqs[r].pc = "waiting"
    /\ served = Nothing
    /\ \E flight_id \in FlightIds :
         \E made \in MakesNow(strip(flight_id) # "") :
         \E q1 \in FirstAnswers(strip(flight_id) # "", made) :
         \E q2 \in SecondAnswers(q1) :
         \E did \in {get_flight_info(flight_id, _flight_api, instances + 1, made, q1, q2)} :
         \E ai \in AiNow(did.result) :
         \E said \in {get_calming_message(flight_id, did.result, client, ai)} :
            /\ served' = Served(r, "get_calming_message", flight_id, NoRoute,
                                said.http, did, <<q1, q2>>, ai, said.sent)
            /\ Finish(r, did)

\* the event loop runs search_flights for request r
SearchFlights(r) ==
    /\ reqs[r].pc = "waiting"
    /\ served = Nothing
    /\ \E departure \in Airports, arrival \in Airports, limit \in Limits :
         IF NeedsRoute(departure, arrival)
         THEN \E did \in {[result |-> Ok(PyNone), raised |-> Ok(PyNone),
                           flight_api |-> _flight_api, api |-> 0, constructed |-> 0,
                           queries |-> <<>>]} :
              /\ served' = Served(r, "search_flights", "", <<departure, arrival, limit>>,
                    HttpError(HTTPException(400,
                        "At least one of 'departure' or 'arrival' must be specified")),
                    did, <<>>, NoAi, <<>>)
              /\ Finish(r, did)
         ELSE \E made \in MakesNow(TRUE) :
              \E q \in FirstAnswers(TRUE, made) :
              \E did \in {search_flights_by_route(departure, arrival, limit,
                                                  _flight_api, instances + 1, made, q)} :
              /\ served' = Served(r, "search_flights", "", <<departure, arrival, limit>>,
                                  search_flights(did.result), did, <<q>>, NoAi, <<>>)
              /\ Finish(r, did)

\* the event loop runs ai_chat for request r
AiChat(r) ==
    /\ reqs[r].pc = "waiting"
    /\ served = Nothing
    /\ \E message \in ChatMessages, system_prompt \in SystemPrompts, ai \in AiAnswers :
         \E said \in {ai_chat(message, system_prompt, client, ai)} :
            served' = [req |-> r, endpoint |-> "ai_chat", message |-> message,
                       system_prompt |-> system_prompt, http |-> said.http,
                       ai |-> ai, sent |-> said.sent]
    /\ reqs' = [reqs EXCEPT ![r].pc = "done"]
    /\ UNCHANGED <<_flight_api, instances, client>>

\* the response of the request just served has been sent
Respond ==
    /\ served # Nothing
    /\ served' = Nothing
    /\ UNCHANGED <<_flight_api, instances, client, reqs>>

Next ==
    \/ \E r \in Requests : Arrive(r)
    \/ \E r \in Requests : GetFlight(r)
    \/ \E r \in Requests : GetCalmingMessage(r)
    \/ \E r \in Requests : SearchFlights(r)
    \/ \E r \in Requests : AiChat(r)
    \/ Respond

Spec == Init /\ [][Next]_vars

(***************************************************************************)
(* The adapter called on its own, as Server/test_flight_api.py calls it:   *)
(* api.get_flight_data(flight_id) on records whose numeric fields take     *)
(* every value a JSON feed can carry, and on records whose airport codes   *)
(* are absent, empty or given.                                             *)
(***************************************************************************)
FieldValues == {PyNone, PyInt(35000), PyInt(-3), PyFloat(1200500), PyStr(" 90 "),
                PyStr("n/a"), PyStr(""), PyObject}

FieldRecords ==
    {[Cruising EXCEPT !["alt"] = a, !["gspeed"] = g, !["track"] = t] :
        a \in FieldValues, g \in FieldValues, t \in FieldValues}

\* the airport codes of a record: absent, empty, given
AirportRecords ==
    {[Cruising EXCEPT !["orig_iata"] = oa, !["orig_icao"] = oc,
                      !["dest_iata"] = da, !["dest_icao"] = dc] :
        oa \in {PyNone, PyStr(""), PyStr("SFO")}, oc \in {PyNone, PyStr(""), PyStr("KSFO")},
        da \in {PyNone, PyStr(""), PyStr("NRT")}, dc \in {PyNone, PyStr(""), PyStr("RJAA")}}

NoHttp == [status |-> 0, detail |-> "", body |-> PyNone, message |-> ""]

CallGetFlightData ==
    /\ served = Nothing
    /\ \E flight_id \in {"UA837", " ua 837 "}, flight \in FieldRecords \cup AirportRecords :
         \E data \in {get_flight_data(flight_id, Returned(<<flight>>), ResponseNone)} :
            served' = Served(0, "get_flight_data", flight_id, NoRoute, NoHttp,
                             [result |-> data.result, raised |-> data.result, api |-> 0,
                              constructed |-> 0, queries |-> data.queries],
                             <<Returned(<<flight>>)>>, NoAi, <<>>)
    /\ UNCHANGED <<_flight_api, instances, client, reqs>>

NextData == CallGetFlightData \/ Respond

SpecData == Init /\ [][NextData]_vars

(***************************************************************************)
(* The aggregator called on its own, as Server/test_flight_api.py calls    *)
(* it: get_flight_info(flight_id) and search_flights_by_route(...) on the  *)
(* module's singleton, over records whose track and ground speed vary.     *)
(***************************************************************************)
MaxSpeed == 12

\* ground speeds of a feed, in knots
Speeds == (-MaxSpeed)..MaxSpeed \cup {100, 450}

\* track values of a feed: in range, the full circle, beyond it, negative
Tracks == {0, 359, 360, 725, -1}

InfoRecords ==
    {[Cruising EXCEPT !["track"] = PyInt(t)] : t \in Tracks}
        \cup {[Cruising EXCEPT !["gspeed"] = PyInt(k)] : k \in Speeds}

InfoFlightIds == {"UA837", "AB61510"}

CallGetFlightInfo ==
    /\ served = Nothing
    /\ \E flight_number \in InfoFlightIds, flight \in InfoRecords :
         \E made \in MakesNow(TRUE) :
         \E q1 \in FirstAnswers(TRUE, made) \cup {Returned(<<flight>>)} :
         \E q2 \in SecondAnswers(q1) :
         \E did \in {get_flight_info(flight_number, _flight_api, instances + 1, made, q1, q2)} :
            /\ served' = Served(0, "get_flight_info", flight_number, NoRoute, NoHttp,
                                did, <<q1, q2>>, NoAi, <<>>)
            /\ _flight_api' = did.flight_api
            /\ instances' = instances + did.constructed
            /\ UNCHANGED <<client, reqs>>

SearchLists == DataLists \cup {<<flight>> : flight \in InfoRecords}

CallSearchFlightsByRoute ==
    /\ served = Nothing
    /\ \E departure \in Airports, arrival \in Airports, limit \in Limits :
         \E made \in MakesNow(~NeedsRoute(departure, arrival)) :
         \E q \in IF NeedsRoute(departure, arrival) \/ made # Built THEN {ResponseNone}
                  ELSE Answers \cup {Returned(data) : data \in SearchLists} :
         \E did \in {search_flights_by_route(departure, arrival, limit,
                                             _flight_api, instances + 1, made, q)} :
            /\ served' = Served(0, "search_flights_by_route", "",
                                <<departure, arrival, limit>>, NoHttp, did, <<q>>, NoAi, <<>>)
            /\ _flight_api' = did.flight_api
            /\ instances' = instances + did.constructed
            /\ UNCHANGED <<client, reqs>>

NextInfo == CallGetFlightInfo \/ CallSearchFlightsByRoute \/ Respond

SpecInfo == Init /\ [][NextInfo]_vars

(***************************************************************************)
(* _knots_to_mph applied to two integers, every pair within the bound.     *)
(***************************************************************************)
MaxKnots == 100

KnotValues == (-MaxKnots)..MaxKnots

CallKnotsToMph ==
    /\ served = Nothing
    /\ \E a \in KnotValues, b \in KnotValues :
            served' = [endpoint |-> "_knots_to_mph", knots |-> <<a, b>>,
                       result |-> <<_knots_to_mph(PyInt(a)), _knots_to_mph(PyInt(b))>>]
    /\ UNCHANGED <<_flight_api, instances, client, reqs>>

NextKnots == CallKnotsToMph \/ Respond

SpecKnots == Init /\ [][NextKnots]_vars

(***************************************************************************)
(* airport_coordinates.py: the table and its lookup.  A coordinate is in   *)
(* ten-thousandths of a degree.                                            *)
(***************************************************************************)
AIRPORT_COORDINATES ==
    [SFO |-> [lat |-> 376213, lng |-> -1223790],
     NRT |-> [lat |-> 357720, lng |-> 1403929],
     JFK |-> [lat |-> 406413, lng |-> -737781],
     LAX |-> [lat |-> 340522, lng |-> -1182437],
     LHR |-> [lat |-> 514700, lng |-> -4543],
     CDG |-> [lat |-> 490097, lng |-> 25479],
     DXB |-> [lat |-> 252532, lng |-> 553657],
     HKG |-> [lat |-> 223080, lng |-> 1139185],
     SIN |-> [lat |-> 13644, lng |-> 1039915],
     ICN |-> [lat |-> 374602, lng |-> 1264407],
     ORD |-> [lat |-> 419742, lng |-> -879073],
     ATL |-> [lat |-> 336407, lng |-> -844277],
     DFW |-> [lat |-> 328998, lng |-> -970403],
     DEN |-> [lat |-> 398561, lng |-> -1046737],
     SEA |-> [lat |-> 474502, lng |-> -1223088],
     BOS |-> [lat |-> 423656, lng |-> -710096],
     MIA |-> [lat |-> 257959, lng |-> -802870],
     IAH |-> [lat |-> 299902, lng |-> -953368],
     PHX |-> [lat |-> 334342, lng |-> -1120116],
     LAS |-> [lat |-> 360840, lng |-> -1151537]]

\* the tuple (lat, lng)
PyTuple(items) == [t |-> "tuple", n |-> 0, s |-> "", d |-> items]

\* get_airport_coordinates without .strip()
get_airport_coordinates_NoStrip(iata_code) ==
    LET Found(code) ==
            IF code \in DOMAIN AIRPORT_COORDINATES
            THEN PyTuple(<<AIRPORT_COORDINATES[code].lat, AIRPORT_COORDINATES[code].lng>>)
            ELSE PyNone
    IN  IF ~truthy(iata_code) THEN PyNone ELSE Found(upper(iata_code.s))

get_airport_coordinates(iata_code) ==
    LET Found(code) ==
            IF code \in DOMAIN AIRPORT_COORDINATES
            THEN PyTuple(<<AIRPORT_COORDINATES[code].lat, AIRPORT_COORDINATES[code].lng>>)
            ELSE PyNone
    IN  IF ~truthy(iata_code) THEN PyNone ELSE Found(strip(upper(iata_code.s)))

\* the spellings of one code: its letters in either case
Spellings(code) ==
    {code, lower(code), CharAt(code, 1) \o lower(SubSeq(code, 2, Len(code))),
     lower(SubSeq(code, 1, 2)) \o CharAt(code, 3)}

\* whitespace put before and after a code
Paddings == {"", " ", "\t ", "\n"}

\* codes that are in no spelling a key of the table
UnknownCodes == {"", " ", "XXX", "SF", "SFOO", "S FO", "sf\to", "KSFO", "nrt1"}

IataCodes ==
    {PyStr(before \o spelling \o after) :
        before \in Paddings, after \in Paddings,
        spelling \in UNION {Spellings(code) : code \in DOMAIN AIRPORT_COORDINATES}}
    \cup {PyStr(before \o code \o after) :
            before \in Paddings, after \in Paddings, code \in UnknownCodes}
    \cup {PyNone}

CallGetAirportCoordinates ==
    /\ served = Nothing
    /\ \E iata_code \in IataCodes :
            served' = [endpoint |-> "get_airport_coordinates", iata_code |-> iata_code,
                       result |-> get_airport_coordinates(iata_code)]
    /\ UNCHANGED <<_flight_api, instances, client, reqs>>

NextAirports == CallGetAirportCoordinates \/ Respond

SpecAirports == Init /\ [][NextAirports]_vars

(***************************************************************************)
(* get_flight_api called on its own, by callers that call again and again. *)
(***************************************************************************)
GetFlightApi(r) ==
    /\ reqs[r].pc = "waiting"
    /\ served = Nothing
    /\ \E made \in MakesNow(TRUE) :
         \E did \in {get_flight_api(_flight_api, instances + 1, made)} :
            /\ served' = [req |-> r, endpoint |-> "get_flight_api", before |-> _flight_api,
                          made |-> made, result |-> did.result,
                          constructed |-> did.constructed]
            /\ _flight_api' = did.flight_api
            /\ instances' = instances + did.constructed
            /\ reqs' = [reqs EXCEPT ![r].pc = "done",
                                    ![r].api = IF did.result.ok THEN did.result.val.n ELSE 0]
    /\ UNCHANGED client

\* a caller that has its answer is free to call again
CallAgain(r) ==
    /\ reqs[r].pc = "done"
    /\ served = Nothing
    /\ reqs' = [reqs EXCEPT ![r] = [pc |-> "idle", first_use |-> FALSE, api |-> 0]]
    /\ UNCHANGED <<_flight_api, instances, client, served>>

NextSingleton ==
    \/ \E r \in Requests : Arrive(r)
    \/ \E r \in Requests : GetFlightApi(r)
    \/ \E r \in Requests : CallAgain(r)
    \/ Respond

SpecSingleton == Init /\ [][NextSingleton]_vars

(***************************************************************************)
(* The claims.                                                             *)
(***************************************************************************)
\* the request just served went through get_flight_info
Lookup == served.endpoint \in {"get_flight", "get_calming_message"}

ReturnedNone == served.result.ok /\ served.result.val.t = "None"

ReturnedDict == served.result.ok /\ served.result.val.t = "dict"

\* the text says "not found", in whatever letter case
SaysNotFound(text) == contains(upper(text), "NOT FOUND")

\* the answer is a response without records
Empty(q) == q.kind # "raise" /\ (q.kind = "data" => Len(q.data) = 0)

LastAnswer == served.answers[Len(served.answers)]

\* C1: whenever get_flight_info returns None, GET /api/flight answers 404
C1_NotFoundIs404 ==
    (served.endpoint = "get_flight" /\ ReturnedNone) => served.http.status = 404

\* C2 as claimed: an error of any kind raised in get_flight_info's try block
\* whose message says "not found" makes get_flight_info return None
C2_AnyErrorNotFoundIsNone ==
    (Lookup /\ ~served.raised.ok /\ SaysNotFound(StrOfError(served.raised))) => ReturnedNone

\* C2 as amended: a ValueError whose message says "not found", in any letter
\* case, makes get_flight_info return None; every other error is raised, an
\* error that is no ValueError as a ConnectionError
C2_ValueErrorNotFoundIsNone ==
    (Lookup /\ ~served.raised.ok) =>
        IF served.raised.exc = "ValueError" /\ SaysNotFound(served.raised.msg)
        THEN ReturnedNone
        ELSE /\ ~served.result.ok
             /\ served.raised.exc # "ValueError" => served.result.exc = "ConnectionError"

C2_Witness ==
    /\ Lookup
    /\ ~served.raised.ok
    /\ served.raised.exc = "ValueError"
    /\ served.raised.msg = "Resource Not Found"
    /\ ReturnedNone

\* C3: for a flight that is found, with the text-generation service configured
\* and answering a non-empty text, get_calming_message hands the service the
\* system prompt and the rendered flight context and answers 200 with that text
C3_CalmingMessageIsTheText ==
    (/\ served.endpoint = "get_calming_message"
     /\ ReturnedDict
     /\ client
     /\ served.ai.kind = "text"
     /\ served.ai.text # "")
    => /\ served.http.status = 200
       /\ served.http.message = served.ai.text
       /\ served.sent = <<
            <<[role |-> "system", content |-> CALMING_SYSTEM_PROMPT],
              [role |-> "user", content |-> CalmingUserMessage(served.result.val.d)]>> >>

\* C4: at most one client is ever constructed, and every request that obtained
\* a client obtained that one
C4_OneClient ==
    /\ instances <= 1
    /\ \A r \in Requests : reqs[r].api # 0 => reqs[r].api = _flight_api
    /\ \A r1, r2 \in Requests :
         (reqs[r1].api # 0 /\ reqs[r2].api # 0) => reqs[r1].api = reqs[r2].api

\* two requests that both arrived while the singleton was unset have been served
C4_Witness ==
    \E r1, r2 \in Requests :
        /\ r1 # r2
        /\ reqs[r1].first_use /\ reqs[r2].first_use
        /\ reqs[r1].pc = "done" /\ reqs[r2].pc = "done"
        /\ reqs[r1].api # 0 /\ reqs[r2].api # 0

\* get_flight_data ended with its not-found error
DeclaredNotFound ==
    ~served.raised.ok /\ served.raised.exc = "ValueError" /\ SaysNotFound(served.raised.msg)

\* the order of the queries of one call: by flight number first, by callsign
\* second and only after an empty first answer, never more than two
QueryOrder ==
    /\ served.queries[1].by = "flights"
    /\ Len(served.queries) <= 2
    /\ (Len(served.queries) = 2) <=> Empty(served.answers[1])
    /\ Len(served.queries) = 2 =>
            /\ served.queries[2].by = "callsigns"
            /\ served.queries[2].arg = served.queries[1].arg

\* C5 as claimed: the query order, and not-found is declared only after both
\* queries returned empty
C5_NotFoundOnlyAfterTwoEmpty ==
    (Lookup /\ served.queries # <<>>) =>
        /\ QueryOrder
        /\ DeclaredNotFound =>
                /\ Len(served.answers) = 2
                /\ Empty(served.answers[1])
                /\ Empty(served.answers[2])

\* C5 as amended: the query order, and not-found is declared only after both
\* queries returned empty or after a query itself raised a not-found error
\* (the provider's NotFoundError, or a ValueError that says not found)
C5_NotFoundAfterTwoEmptyOrRaised ==
    (Lookup /\ served.queries # <<>>) =>
        /\ QueryOrder
        /\ DeclaredNotFound =>
                \/ /\ Len(served.answers) = 2
                   /\ Empty(served.answers[1])
                   /\ Empty(served.answers[2])
                \/ /\ LastAnswer.kind = "raise"
                   /\ LastAnswer.exc \in {"NotFoundError", "ValueError"}

C5_Witness ==
    /\ Lookup
    /\ Len(served.queries) = 2
    /\ Empty(served.answers[1])
    /\ Empty(served.answers[2])
    /\ DeclaredNotFound

\* the provider signalled that it has no credential: when the client was
\* constructed, or when a query was issued
CredentialAbsent ==
    \/ ~served.raised.ok /\ served.raised.exc = "NoApiKeyError"
    \/ served.answers # <<>> /\ LastAnswer.kind = "raise" /\ LastAnswer.exc = "NoApiKeyError"

\* C6: an absent credential ends GET /api/flight with 400, wherever it is detected
C6_CredentialIs400 ==
    (served.endpoint = "get_flight" /\ CredentialAbsent) => served.http.status = 400

RateLimited ==
    Lookup /\ served.answers # <<>> /\ LastAnswer.kind = "raise"
        /\ LastAnswer.exc = "RateLimitError"

\* C7 as claimed: a rate limit reaches the caller of get_flight_info as an error
\* of another kind than the one used for generic transport or API failures
C7_RateLimitIsItsOwnKind ==
    RateLimited => (~served.result.ok /\ served.result.exc # "ConnectionError")

\* C7 as amended: a rate limit reaches the caller of get_flight_info as a
\* ConnectionError, the kind of every upstream failure, carrying the provider's
\* text; it is not folded into not-found
C7_RateLimitIsConnectionError ==
    RateLimited =>
        /\ ~served.result.ok
        /\ served.result.exc = "ConnectionError"
        /\ contains(served.result.msg, LastAnswer.msg)

C7_Witness == RateLimited /\ ~served.result.ok /\ served.result.exc = "ConnectionError"

\* the value is missing or is no number
Malformed(v) ==
    \/ v.t \in {"None", "object"}
    \/ v.t = "str" /\ ~(\E i \in 1..Len(v.s) : IsDigit(CharAt(v.s, i)))

OutField == [alt |-> "flight_altitude", gspeed |-> "flight_speed", track |-> "flight_direction"]

\* C8: a record whose altitude, ground speed or track is missing or non-numeric
\* still gives a FlightData, with 0 in that field and every other field as a
\* well-formed value there would have left it
C8_MalformedFieldIsZero ==
    served.endpoint = "get_flight_data" =>
        LET flight == served.answers[1].data[1] IN
        \A f \in DOMAIN OutField :
            Malformed(flight[f]) =>
                /\ served.result.ok
                /\ served.result.val[OutField[f]] = PyInt(0)
                /\ \A g \in DOMAIN served.result.val \ {OutField[f]} :
                      served.result.val[g] = FlightData([flight EXCEPT ![f] = PyInt(1)])[g]

C8_Witness ==
    /\ served.endpoint = "get_flight_data"
    /\ served.answers[1].data[1]["alt"] = PyStr("n/a")
    /\ served.answers[1].data[1]["track"] = PyInt(35000)
    /\ served.result.ok
    /\ served.result.val.flight_altitude = PyInt(0)
    /\ served.result.val.flight_direction = PyInt(35000)

\* the text is empty or all whitespace
Blank(text) == \A i \in 1..Len(text) : IsWhitespace(CharAt(text, i))

\* C9: for an empty or all-whitespace flight_number get_flight_info returns None
\* without obtaining or constructing the client and without a provider query
C9_BlankIsNoneWithoutCalls ==
    (Lookup /\ Blank(served.flight_id)) =>
        /\ ReturnedNone
        /\ served.api = 0
        /\ served.constructed = 0
        /\ served.queries = <<>>
        /\ _flight_api = served.before

C9_Witness == Lookup /\ served.flight_id = " \t" /\ ReturnedNone /\ served.queries = <<>>

Normalised(number) == number.t = "str" /\ number.s = upper(number.s) /\ ~HasWhitespace(number.s)

\* C10: the flight_number of every record returned by get_flight_info or by
\* search_flights_by_route is uppercase and has no whitespace in it
C10_FlightNumberNormalised ==
    /\ (Lookup /\ ReturnedDict) => Normalised(served.result.val.d.flight_number)
    /\ (served.endpoint = "search_flights" /\ served.result.ok
            /\ served.result.val.t = "list") =>
          \A i \in 1..Len(served.result.val.d) :
              Normalised(served.result.val.d[i].d.flight_number)

\* the dictionaries returned by the direct call just made
ReturnedRecords ==
    IF served.endpoint = "get_flight_info" /\ ReturnedDict THEN <<served.result.val.d>>
    ELSE IF served.endpoint = "search_flights_by_route" /\ served.result.ok
            /\ served.result.val.t = "list"
    THEN [i \in 1..Len(served.result.val.d) |-> served.result.val.d[i].d]
    ELSE <<>>

\* C11: the direction of every record returned by get_flight_info is an
\* integer from 0 to 359, whatever track the provider supplied
C11_HeadingInCircle ==
    (served.endpoint = "get_flight_info" /\ ReturnedDict) =>
        /\ served.result.val.d.direction.t = "int"
        /\ served.result.val.d.direction.n \in 0..359

\* k * 1.15078 rounded to the nearest integer
RoundedMph(k) ==
    IF k >= 0 THEN (k * 115078 + 50000) \div 100000
    ELSE -(((-k) * 115078 + 50000) \div 100000)

\* k * 1.15078 with its fraction cut off
TruncatedMph(k) ==
    IF k >= 0 THEN (k * 115078) \div 100000 ELSE -(((-k) * 115078) \div 100000)

\* C12 as claimed: in every record returned with an integer speed_knots,
\* speed_mph is speed_knots * 1.15078 rounded to the nearest integer
C12_MphIsRounded ==
    \A i \in 1..Len(ReturnedRecords) :
        ReturnedRecords[i].speed_knots.t = "int" =>
            ReturnedRecords[i].speed_mph = PyInt(RoundedMph(ReturnedRecords[i].speed_knots.n))

\* C12 as amended: in every record returned with an integer speed_knots,
\* speed_mph is speed_knots * 1.15078 truncated toward zero
C12_MphIsTruncated ==
    \A i \in 1..Len(ReturnedRecords) :
        ReturnedRecords[i].speed_knots.t = "int" =>
            ReturnedRecords[i].speed_mph = PyInt(TruncatedMph(ReturnedRecords[i].speed_knots.n))

\* a record whose product 5 * 1.15078 = 5.7539 rounds to 6 and is cut to 5
C12_Witness ==
    \E i \in 1..Len(ReturnedRecords) :
        /\ ReturnedRecords[i].speed_knots = PyInt(5)
        /\ ReturnedRecords[i].speed_mph = PyInt(5)

\* C13: _knots_to_mph never decreases as the knots grow, negative values
\* included, and maps 0 to 0 and 100 to 115
C13_KnotsToMphMonotonic ==
    served.endpoint = "_knots_to_mph" =>
        /\ served.result[1].ok /\ served.result[2].ok
        /\ served.result[1].val.t = "int" /\ served.result[2].val.t = "int"
        /\ served.knots[1] <= served.knots[2] =>
                served.result[1].val.n <= served.result[2].val.n
        /\ served.knots[1] = 0 => served.result[1].val.n = 0
        /\ served.knots[1] = 100 => served.result[1].val.n = 115

C13_Witness ==
    /\ served.endpoint = "_knots_to_mph"
    /\ served.knots = <<-2, 100>>
    /\ served.result[1].val = PyInt(-2)
    /\ served.result[2].val = PyInt(115)

\* text is code in some letter case
SameLetters(text, code) ==
    /\ Len(text) = Len(code)
    /\ \A k \in 1..Len(code) : CharAt(text, k) \in {CharAt(code, k), ToLower[CharAt(code, k)]}

\* text is code in some letter case between leading and trailing whitespace
IsVariant(text, code) ==
    \E i \in 0..Len(text) :
        /\ i + Len(code) <= Len(text)
        /\ \A k \in 1..i : IsWhitespace(CharAt(text, k))
        /\ SameLetters(SubSeq(text, i + 1, i + Len(code)), code)
        /\ \A k \in (i + Len(code) + 1)..Len(text) : IsWhitespace(CharAt(text, k))

\* C14: every variant of a code of the table, in letter case and in leading or
\* trailing whitespace, gets the pair of that code; every other code gets None
C14_LookupIgnoresCaseAndPadding ==
    served.endpoint = "get_airport_coordinates" =>
        IF served.iata_code.t = "str"
            /\ \E code \in DOMAIN AIRPORT_COORDINATES : IsVariant(served.iata_code.s, code)
        THEN \A code \in DOMAIN AIRPORT_COORDINATES :
                IsVariant(served.iata_code.s, code) =>
                    /\ served.result.t = "tuple"
                    /\ served.result.d = <<AIRPORT_COORDINATES[code].lat,
                                           AIRPORT_COORDINATES[code].lng>>
        ELSE served.result.t = "None"

C14_Witness ==
    /\ served.endpoint = "get_airport_coordinates"
    /\ served.iata_code = PyStr("\t nrT\n")
    /\ served.result.t = "tuple"
    /\ served.result.d = <<357720, 1403929>>

\* C15: on POST /api/ai/chat an absent text-generation credential answers 400
\* and any other failure of the text-generation service answers 500
C15_ChatFaultsAre400And500 ==
    served.endpoint = "ai_chat" =>
        /\ ~client => served.http.status = 400
        /\ (client /\ served.ai.kind = "raise") => served.http.status = 500

\* C16: get_flight_info("AB61510") returns the simulated flight: from San
\* Francisco International to Narita International Airport, a Boeing 777,
\* marked as simulated and not as live
C16_SimulatedFlightRecord ==
    (served.endpoint = "get_flight_info" /\ served.flight_id = "AB61510") =>
        /\ ReturnedDict
        /\ served.result.val.d.departure_airport = PyStr("San Francisco International")
        /\ served.result.val.d.arrival_airport = PyStr("Narita International Airport")
        /\ served.result.val.d.aircraft_type = PyStr("Boeing 777")
        /\ served.result.val.d.data_source = PyStr("simulated")
        /\ ~served.result.val.d.is_live

\* the route query of the direct call just made was answered with records
SearchedRecords ==
    IF served.endpoint = "search_flights_by_route" /\ served.answers # <<>>
        /\ served.answers[1].kind = "data"
    THEN served.answers[1].data ELSE <<>>

SearchField == [alt |-> "altitude_ft", gspeed |-> "speed_knots", track |-> "direction"]

\* C17: search_flights_by_route returns a record for every record of the
\* response, with 0 in a numeric field whose source is missing or non-numeric
C17_MalformedRecordIsDegraded ==
    SearchedRecords # <<>> =>
        /\ served.result.ok
        /\ Len(served.result.val.d) = Len(SearchedRecords)
        /\ \A i \in 1..Len(SearchedRecords) : \A f \in DOMAIN SearchField :
              Malformed(SearchedRecords[i][f]) =>
                  served.result.val.d[i].d[SearchField[f]] = PyInt(0)

\* a code that is given and not empty
Given(code) == code.t = "str" /\ code.s # ""

\* IATA first, then ICAO, then the sentinel
BestLabel(iata, icao) ==
    IF Given(iata) THEN iata ELSE IF Given(icao) THEN icao ELSE PyStr("Unknown")

\* C18: the airport labels of get_flight_data are the IATA code, else the ICAO
\* code, else "Unknown", never empty, and the labels search_flights_by_route
\* gives the same record
C18_AirportLabelIsBestCode ==
    (served.endpoint = "get_flight_data" /\ served.result.ok) =>
        LET flight == served.answers[1].data[1]
            data == served.result.val
        IN  /\ data.flight_departure_airport
                    = BestLabel(flight["orig_iata"], flight["orig_icao"])
            /\ data.flight_arrival_airport
                    = BestLabel(flight["dest_iata"], flight["dest_icao"])
            /\ data.flight_departure_airport.s # ""
            /\ data.flight_arrival_airport.s # ""
            /\ data.flight_departure_airport = SearchInfo(flight).departure_airport
            /\ data.flight_arrival_airport = SearchInfo(flight).arrival_airport

\* C20: search_flights_by_route returns at most `limit` records
C20_AtMostLimitRecords ==
    (served.endpoint = "search_flights_by_route" /\ served.result.ok) =>
        Len(served.result.val.d) <= served.limit

\* C19: when get_flight_info returns None, get_calming_message answers 404
\* and hands nothing to the text-generation service; the service is called
\* only after a flight record was obtained
C19_NoFlightNoGeneration ==
    served.endpoint = "get_calming_message" =>
        /\ ReturnedNone => (served.http.status = 404 /\ served.sent = <<>>)
        /\ served.sent # <<>> => ReturnedDict

\* not found while the text-generation service is configured
C19_Witness ==
    /\ served.endpoint = "get_calming_message"
    /\ served.flight_id = "UA837"
    /\ ReturnedNone
    /\ client
    /\ served.http.status = 404
    /\ served.sent = <<>>

\* the attributes get_flight_data reads of every record
AlwaysRead == {"orig_iata", "dest_iata", "fr24_id", "alt", "gspeed", "lat", "lon", "track"}

\* the lookup just served was answered with a record that lacks such an attribute
RecordLacksAttribute ==
    /\ Lookup
    /\ served.answers # <<>>
    /\ LastAnswer.kind = "data"
    /\ LastAnswer.data # <<>>
    /\ \E name \in AlwaysRead : LastAnswer.data[1][name].t = "absent"

\* C21: a record that cannot be read makes get_flight_data raise its
\* missing-fields error, which get_flight_info raises as ConnectionError and
\* GET /api/flight answers with 503: never None, never 400
C21_MalformedRecordIs503 ==
    RecordLacksAttribute =>
        /\ ~served.raised.ok
        /\ served.raised.exc = "KeyError"
        /\ ~served.result.ok
        /\ served.result.exc = "ConnectionError"
        /\ served.endpoint = "get_flight" => served.http.status = 503

\* the identifier itself says "not found"
C21_Witness ==
    /\ RecordLacksAttribute
    /\ served.endpoint = "get_flight"
    /\ served.flight_id = "not found"
    /\ served.raised.exc = "KeyError"
    /\ served.http.status = 503


\* a call of get_flight_api is made in this step
AccessorCalled == served'.endpoint = "get_flight_api"

\* what a call does: with the singleton unset it constructs, and keeps the
\* instance only if construction did not raise; with it set it returns it
AccessorStep ==
    IF _flight_api = 0
    THEN IF served'.made = Built
         THEN /\ served'.result.ok
              /\ _flight_api' # 0
              /\ served'.result.val = PyInt(_flight_api')
              /\ instances' = instances + 1
         ELSE /\ ~served'.result.ok
              /\ served'.result.exc = served'.made.exc
              /\ _flight_api' = 0
              /\ instances' = instances
    ELSE /\ served'.result = Ok(PyInt(_flight_api))
         /\ _flight_api' = _flight_api
         /\ instances' = instances

\* C22: a construction that raises leaves the singleton unset, so that the
\* next call constructs again; a singleton once set is never reassigned, and
\* every later call returns it without constructing another instance
C22_SingletonSetOnce ==
    [][/\ AccessorCalled => AccessorStep
       /\ _flight_api # 0 => _flight_api' = _flight_api /\ instances' = instances]_vars

\* a call raised in construction, a later call constructed the client, and
\* the call after that was returned the same instance
C22_Witness ==
    /\ served # Nothing
    /\ served.endpoint = "get_flight_api"
    /\ served.before # 0
    /\ served.result = Ok(PyInt(served.before))
    /\ instances = 1
    /\ \E r \in Requests \ {served.req} : reqs[r].pc = "done" /\ reqs[r].api = 0

====
